---- MODULE Spec2Model ----
(***************************************************************************)
(* Model of the currency dashboard script main.py: the CSV loader behind   *)
(* st.cache_data, the percentage derivation, the map markers, the donut    *)
(* charts, and the order in which one run of the script executes them.     *)
(*                                                                         *)
(* Numbers.  The script computes with float64.  The model computes with    *)
(* exact rationals [n |-> numerator, d |-> denominator > 0]; rounding of   *)
(* the binary representation, NaN and the infinities are not modelled.     *)
(* Text.  Labels, captions and popups are formatted strings that nothing   *)
(* in the script reads back; the model keeps the values they are made of.  *)
(***************************************************************************)
EXTENDS Integers, Sequences, FiniteSets, TLC

VARIABLES
    files,       \* path -> the lines of the CSV file on disk
    cache,       \* st.cache_data store of load_currency_data: path -> result
    status,      \* "idle" | "running" | "done" | "aborted": the script run
    pc,          \* index into Script of the step the run executes next
    err,         \* name of the exception that ended the run, or "none"
    currencies,  \* the module-level dict currencies: code -> record
    markers,     \* CircleMarkers added to the feature group: key -> marker
    donuts,      \* figures handed to st.pyplot: code -> figure
    ui,          \* the elements the run has emitted to the page, in order
    updates,     \* number of CSV updates made so far in the session
    lastLoad,    \* path -> the latest call of load_currency_data on it
    prevLoad,    \* path -> the call before the latest one
    call,        \* a function applied in isolation: its name and arguments
    ret          \* ... and what it returned

vars == <<files, cache, status, pc, err, currencies, markers, donuts, ui,
          updates, lastLoad, prevLoad, call, ret>>

(***************************************************************************)
(* Bounds of the model.                                                    *)
(***************************************************************************)
MaxUpdates == 2
MaxRows == 3
MaxDay == 3
MaxPctHalves == 410
MaxSlices == 3

(***************************************************************************)
(* Exact arithmetic standing for the script's float arithmetic.            *)
(***************************************************************************)
Rat(n, d) == [n |-> n, d |-> d]
FromInt(k) == Rat(k, 1)
RLt(a, b) == a.n * b.d < b.n * a.d
RLe(a, b) == a.n * b.d <= b.n * a.d
REq(a, b) == a.n * b.d = b.n * a.d
RAdd(a, b) == Rat(a.n * b.d + b.n * a.d, a.d * b.d)
RSub(a, b) == Rat(a.n * b.d - b.n * a.d, a.d * b.d)
RDivInt(a, k) == Rat(a.n, a.d * k)
RMulInt(a, k) == Rat(a.n * k, a.d)
\* 1 / a, for a # 0
RInv(a) == IF a.n > 0 THEN Rat(a.d, a.n) ELSE Rat(-a.d, -a.n)
\* Python's min(a, b) and max(a, b): the first argument wins a tie
RMin(a, b) == IF RLt(b, a) THEN b ELSE a
RMax(a, b) == IF RLt(a, b) THEN b ELSE a

RECURSIVE RSum(_)
RSum(s) == IF s = <<>> THEN FromInt(0) ELSE RAdd(Head(s), RSum(Tail(s)))

(***************************************************************************)
(* The currencies, in the order of the dict literal, and their CSV paths.  *)
(***************************************************************************)
Codes == <<"BRL", "EUR", "JPY", "ZAR">>
CodeSet == {Codes[i] : i \in 1..Len(Codes)}

Path(code) ==
    CASE code = "BRL" -> "Price-Data/BRL_Brazilian-Real.csv"
      [] code = "EUR" -> "Price-Data/EUR_European-Euro.csv"
      [] code = "JPY" -> "Price-Data/JPY_Japanese-Yen.csv"
      [] code = "ZAR" -> "Price-Data/ZAR_South-African-Rand.csv"

Paths == {Path(c) : c \in CodeSet}

(***************************************************************************)
(* A CSV file is its sequence of lines.  A metadata line carries nothing   *)
(* the loader reads; a data line is a row of which the loader reads Date   *)
(* (a day number) and Close.  Every line has the six columns that the      *)
(* assignment to df.columns requires.                                      *)
(***************************************************************************)
MetaLine == [meta |-> TRUE, Date |-> 0, Close |-> FromInt(0)]
Row(day, close) == [meta |-> FALSE, Date |-> day, Close |-> close]
MetaLines == <<MetaLine, MetaLine, MetaLine>>

Failed(name) == [err |-> name, close |-> FromInt(0), date |-> 0]

(***************************************************************************)
(* pd.read_csv(file_path, skiprows=3): the first three lines are skipped;  *)
(* no header argument is given, so the first line that is left is read as  *)
(* the header and the lines after it are the rows of the frame.            *)
(***************************************************************************)
read_csv(lines, skiprows) ==
    LET rest == SubSeq(lines, skiprows + 1, Len(lines))
    IN  IF rest = <<>>
        THEN [err |-> "EmptyDataError", rows |-> <<>>]
        ELSE [err |-> "none", rows |-> Tail(rest)]

\* index of the first row of s with the greatest Date
FirstMax(s) ==
    CHOOSE i \in 1..Len(s) :
        /\ \A j \in 1..Len(s) : s[j].Date <= s[i].Date
        /\ \A j \in 1..(i - 1) : s[j].Date < s[i].Date

Without(s, i) == SubSeq(s, 1, i - 1) \o SubSeq(s, i + 1, Len(s))

\* df.sort_values('Date', ascending=False); rows of equal Date keep their order
RECURSIVE sort_values(_)
sort_values(rows) ==
    IF rows = <<>> THEN <<>>
    ELSE LET i == FirstMax(rows)
         IN  <<rows[i]>> \o sort_values(Without(rows, i))

\* the body of load_currency_data
load_currency_data(lines) ==
    LET df == read_csv(lines, 3)
    IN  IF df.err # "none" THEN Failed(df.err)
        ELSE LET sorted == sort_values(df.rows)
             IN  IF sorted = <<>> THEN Failed("IndexError")
                 ELSE [err |-> "none", close |-> sorted[1].Close,
                       date |-> sorted[1].Date]

(***************************************************************************)
(* @st.cache_data: a call whose path has an entry returns the entry; any   *)
(* other call runs the body and, when the body returns, stores the result. *)
(* The decorator sets neither ttl nor max_entries and the script never     *)
(* clears the store.                                                       *)
(***************************************************************************)
cache_data_result(store, path, lines) ==
    IF path \in DOMAIN store THEN store[path] ELSE load_currency_data(lines)

\* a store that is refreshed on every call although the old entry is returned
cache_data_store_refresh(store, path, lines) ==
    LET r == load_currency_data(lines)
    IN  IF r.err = "none" THEN (path :> r) @@ store ELSE store

cache_data_store(store, path, lines) ==
    IF path \in DOMAIN store THEN store
    ELSE LET r == load_currency_data(lines)
         IN  IF r.err = "none" THEN (path :> r) @@ store ELSE store

(***************************************************************************)
(* Derived metrics: percentage = (1 / rate) * 100.                         *)
(***************************************************************************)
percentage_of(rate) == RMulInt(RInv(rate), 100)

derive(entry) ==
    LET rate == entry.close
        withRate == [close |-> entry.close, date |-> entry.date, rate |-> rate]
    IN  IF rate.n = 0
        THEN [err |-> "ZeroDivisionError", entry |-> withRate]
        ELSE [err |-> "none",
              entry |-> [close |-> entry.close, date |-> entry.date,
                         rate |-> rate, percentage |-> percentage_of(rate)]]

(***************************************************************************)
(* Donut helper: the values and colors it hands to ax.pie.                 *)
(***************************************************************************)
\* a helper that substitutes the values and forgets the colors
donut_matplotlib_keeps_colors(percentage, colors) ==
    IF REq(RSum(percentage), FromInt(0))
    THEN [values |-> <<FromInt(1)>>, colors |-> colors]
    ELSE [values |-> percentage, colors |-> colors]

donut_matplotlib(percentage, colors) ==
    IF REq(RSum(percentage), FromInt(0))
    THEN [values |-> <<FromInt(1)>>, colors |-> <<"#E8E8E8">>]
    ELSE [values |-> percentage, colors |-> colors]

\* ax.pie raises ValueError on a negative wedge size
pie_rejects(values) == \E i \in 1..Len(values) : values[i].n < 0

(***************************************************************************)
(* Map: marker colour and radius.                                          *)
(***************************************************************************)
\* a classifier whose EUR threshold is exclusive
color_for_eur_strict(code, pct) ==
    IF code = "BRL" THEN (IF RLt(pct, FromInt(25)) THEN "green" ELSE "red")
    ELSE IF code = "EUR" THEN (IF RLt(FromInt(100), pct) THEN "red" ELSE "green")
    ELSE IF code = "JPY" THEN (IF RLt(pct, FromInt(1)) THEN "green" ELSE "red")
    ELSE IF code = "ZAR" THEN (IF RLt(pct, FromInt(10)) THEN "green" ELSE "red")
    ELSE "gray"

color_for(code, pct) ==
    IF code = "BRL" THEN (IF RLt(pct, FromInt(25)) THEN "green" ELSE "red")
    ELSE IF code = "EUR" THEN (IF RLe(FromInt(100), pct) THEN "red" ELSE "green")
    ELSE IF code = "JPY" THEN (IF RLt(pct, FromInt(1)) THEN "green" ELSE "red")
    ELSE IF code = "ZAR" THEN (IF RLt(pct, FromInt(10)) THEN "green" ELSE "red")
    ELSE "gray"

\* a radius without the lower clamp
radius_for_no_floor(k, pct) ==
    RMin(FromInt(14),
         RSub(FromInt(14),
              IF k # "EUR" THEN pct
              ELSE RDivInt(RMin(pct, FromInt(160)), 4)))

radius_for(k, pct) ==
    RMax(FromInt(6),
         RMin(FromInt(14),
              RSub(FromInt(14),
                   IF k # "EUR" THEN pct
                   ELSE RDivInt(RMin(pct, FromInt(160)), 4))))

CoordKeys == <<"BRL", "EUR", "JPY", "ZAR", "USD">>

marker_for(k, cur) ==
    IF k = "USD"
    THEN [radius |-> FromInt(6), color |-> "gray", fill_color |-> "none",
          rate |-> FromInt(0), dt |-> 0]
    ELSE [radius |-> radius_for(k, cur[k].percentage),
          color |-> color_for(k, cur[k].percentage),
          fill_color |-> color_for(k, cur[k].percentage),
          rate |-> cur[k].rate, dt |-> cur[k].date]

(***************************************************************************)
(* Donut row: the slice values and colors each block passes to the helper. *)
(***************************************************************************)
BRLDonut(brl_pct) ==
    [values |-> <<RMin(FromInt(100), brl_pct),
                  RMax(FromInt(0), RSub(FromInt(100), brl_pct))>>,
     colors |-> <<IF RLt(brl_pct, FromInt(25)) THEN "#90EE90" ELSE "#FFB6C6",
                  "#E8E8E8">>]

\* an overflow wedge that is not clamped
EURDonut_unclamped(eur_pct) ==
    IF RLt(FromInt(100), eur_pct)
    THEN LET overflow == RSub(eur_pct, FromInt(100))
         IN  [values |-> <<FromInt(100), overflow, FromInt(0)>>,
              colors |-> <<"#FFB6C6", "#CC0000", "#E8E8E8">>]
    ELSE [values |-> <<eur_pct, RSub(FromInt(100), eur_pct)>>,
          colors |-> <<"#FFB6C6", "#E8E8E8">>]

EURDonut(eur_pct) ==
    IF RLt(FromInt(100), eur_pct)
    THEN LET overflow == RSub(eur_pct, FromInt(100))
         IN  [values |-> <<FromInt(100), RMin(overflow, FromInt(100)), FromInt(0)>>,
              colors |-> <<"#FFB6C6", "#CC0000", "#E8E8E8">>]
    ELSE [values |-> <<eur_pct, RSub(FromInt(100), eur_pct)>>,
          colors |-> <<"#FFB6C6", "#E8E8E8">>]

JPYDonut(jpy_pct) ==
    [values |-> <<RMin(FromInt(100), jpy_pct),
                  RMax(FromInt(0), RSub(FromInt(100), jpy_pct))>>,
     colors |-> <<IF RLt(jpy_pct, FromInt(1)) THEN "#90EE90" ELSE "#FFB6C6",
                  "#E8E8E8">>]

ZARDonut(zar_pct) ==
    [values |-> <<RMin(FromInt(100), zar_pct),
                  RMax(FromInt(0), RSub(FromInt(100), zar_pct))>>,
     colors |-> <<IF RLt(zar_pct, FromInt(10)) THEN "#90EE90" ELSE "#FFB6C6",
                  "#E8E8E8">>]

DonutArgs(code, pct) ==
    CASE code = "BRL" -> BRLDonut(pct)
      [] code = "EUR" -> EURDonut(pct)
      [] code = "JPY" -> JPYDonut(pct)
      [] code = "ZAR" -> ZARDonut(pct)

(***************************************************************************)
(* One run of the script, top to bottom.  Streamlit runs the whole script  *)
(* on every page view and rerun; an uncaught exception ends the run.       *)
(***************************************************************************)
Step(kind, code) == [kind |-> kind, code |-> code]

\* a script that writes the page header before it ingests the files
Script_header_first ==
    <<Step("set_page_config", ""), Step("header", "")>>
    \o [i \in 1..Len(Codes) |-> Step("load", Codes[i])]
    \o [i \in 1..Len(Codes) |-> Step("derive", Codes[i])]
    \o [i \in 1..Len(CoordKeys) |-> Step("marker", CoordKeys[i])]
    \o <<Step("st_folium", ""), Step("donut_heading", "")>>
    \o [i \in 1..Len(Codes) |-> Step("donut", Codes[i])]
    \o <<Step("footer", "")>>

Script ==
    <<Step("set_page_config", "")>>
    \o [i \in 1..Len(Codes) |-> Step("load", Codes[i])]
    \o [i \in 1..Len(Codes) |-> Step("derive", Codes[i])]
    \o <<Step("header", "")>>
    \o [i \in 1..Len(CoordKeys) |-> Step("marker", CoordKeys[i])]
    \o <<Step("st_folium", ""), Step("donut_heading", "")>>
    \o [i \in 1..Len(Codes) |-> Step("donut", Codes[i])]
    \o <<Step("footer", "")>>

At(kind) == status = "running" /\ pc \in 1..Len(Script) /\ Script[pc].kind = kind

NoCall == [fn |-> "none", code |-> "", pct |-> FromInt(0), lines |-> <<>>,
           percentage |-> <<>>, colors |-> <<>>]
NoRet == [fn |-> "none"]
Empty == <<>>

Isolated == <<call, ret>>
History == <<lastLoad, prevLoad>>
Outputs == <<markers, donuts, ui>>

\* the run goes on to the next step
Advance == pc' = pc + 1 /\ status' = "running" /\ err' = err
\* an exception propagates to the top of the script
Raise(name) == pc' = pc /\ status' = "aborted" /\ err' = name

\* line 9
SetPageConfig ==
    /\ At("set_page_config")
    /\ Advance
    /\ UNCHANGED <<files, cache, currencies, Outputs, updates, History, Isolated>>

\* lines 23-28: one entry of the dict literal
Load ==
    /\ At("load")
    /\ LET c == Script[pc].code
           p == Path(c)
           r == cache_data_result(cache, p, files[p])
       IN  /\ cache' = cache_data_store(cache, p, files[p])
           /\ prevLoad' = IF p \in DOMAIN lastLoad
                          THEN (p :> lastLoad[p]) @@ prevLoad ELSE prevLoad
           /\ lastLoad' = (p :> [lines |-> files[p], out |-> r]) @@ lastLoad
           /\ IF r.err = "none"
              THEN /\ currencies' = (c :> [close |-> r.close, date |-> r.date])
                                        @@ currencies
                   /\ Advance
              ELSE /\ currencies' = currencies
                   /\ Raise(r.err)
    /\ UNCHANGED <<files, Outputs, updates, Isolated>>

\* lines 31-35: one iteration of the loop
Derive ==
    /\ At("derive")
    /\ LET c == Script[pc].code
           d == derive(currencies[c])
       IN  /\ currencies' = [currencies EXCEPT ![c] = d.entry]
           /\ IF d.err = "none" THEN Advance ELSE Raise(d.err)
    /\ UNCHANGED <<files, cache, Outputs, updates, History, Isolated>>

\* lines 64-76: title, subheader, the text column, the map column's heading
Header ==
    /\ At("header")
    /\ ui' = Append(ui, "header")
    /\ Advance
    /\ UNCHANGED <<files, cache, currencies, markers, donuts, updates, History,
                   Isolated>>

\* lines 102-132: one iteration of the loop over coords
Marker ==
    /\ At("marker")
    /\ LET k == Script[pc].code
       IN  markers' = (k :> marker_for(k, currencies)) @@ markers
    /\ Advance
    /\ UNCHANGED <<files, cache, currencies, donuts, ui, updates, History,
                   Isolated>>

\* lines 134-135
StFolium ==
    /\ At("st_folium")
    /\ ui' = Append(ui, "map")
    /\ Advance
    /\ UNCHANGED <<files, cache, currencies, markers, donuts, updates, History,
                   Isolated>>

\* lines 137-142
DonutHeading ==
    /\ At("donut_heading")
    /\ ui' = Append(ui, "donut_heading")
    /\ Advance
    /\ UNCHANGED <<files, cache, currencies, markers, donuts, updates, History,
                   Isolated>>

\* lines 145-200: one of the four blocks
Donut ==
    /\ At("donut")
    /\ LET c == Script[pc].code
           a == DonutArgs(c, currencies[c].percentage)
           fig == donut_matplotlib(a.values, a.colors)
       IN  IF pie_rejects(fig.values)
           THEN /\ Raise("ValueError")
                /\ UNCHANGED <<donuts, ui>>
           ELSE /\ donuts' = (c :> [values |-> fig.values, colors |-> fig.colors,
                                    rate |-> currencies[c].rate]) @@ donuts
                /\ ui' = Append(ui, c)
                /\ Advance
    /\ UNCHANGED <<files, cache, currencies, markers, updates, History, Isolated>>

\* lines 202-203: the last statement of the script
Footer ==
    /\ At("footer")
    /\ ui' = Append(ui, "footer")
    /\ pc' = pc /\ status' = "done" /\ err' = err
    /\ UNCHANGED <<files, cache, currencies, markers, donuts, updates, History,
                   Isolated>>

\* a page view or rerun: the script starts again from its first line; the
\* cache store outlives the run
Rerun ==
    /\ status # "running"
    /\ status' = "running" /\ pc' = 1 /\ err' = "none"
    /\ currencies' = Empty /\ markers' = Empty /\ donuts' = Empty /\ ui' = Empty
    /\ UNCHANGED <<files, cache, updates, History, Isolated>>

(***************************************************************************)
(* The environment: between two runs somebody appends a newer row to one   *)
(* of the CSV files (the footer's tip).                                    *)
(***************************************************************************)
NewCloses == {FromInt(2), FromInt(0)}

LastDay(lines) == IF Len(lines) > 3 THEN lines[Len(lines)].Date ELSE 0

UpdateCsv ==
    /\ status # "running"
    /\ updates < MaxUpdates
    /\ \E p \in Paths, close \in NewCloses :
          files' = [files EXCEPT ![p] = Append(@, Row(LastDay(@) + 1, close))]
    /\ updates' = updates + 1
    \* the page of a finished run no longer shows the files as they are
    /\ status' = IF status = "done" THEN "idle" ELSE status
    /\ UNCHANGED <<cache, pc, err, currencies, Outputs, History, Isolated>>

(***************************************************************************)
(* Initial state: the files as the session finds them, in ascending date   *)
(* order; at most one of them is not a typical one.                        *)
(***************************************************************************)
TypicalClose(code) ==
    CASE code = "BRL" -> FromInt(5)
      [] code = "EUR" -> Rat(85, 100)
      [] code = "JPY" -> FromInt(150)
      [] code = "ZAR" -> FromInt(18)

Typical(code) ==
    MetaLines \o <<Row(1, TypicalClose(code)), Row(2, TypicalClose(code))>>

Odd(code) ==
    { MetaLines,
      MetaLines \o <<Row(1, TypicalClose(code))>>,
      MetaLines \o <<Row(1, TypicalClose(code)), Row(2, FromInt(0))>>,
      MetaLines \o <<Row(1, TypicalClose(code)), Row(2, FromInt(-5))>> }

InitFiles ==
    { [p \in Paths |-> Typical(CHOOSE c \in CodeSet : Path(c) = p)] }
    \cup { [p \in Paths |-> IF p = Path(c) THEN o
                            ELSE Typical(CHOOSE x \in CodeSet : Path(x) = p)] :
           <<c, o>> \in UNION { {<<c, o>> : o \in Odd(c)} : c \in CodeSet } }

Init ==
    /\ files \in InitFiles
    /\ cache = Empty
    /\ status = "idle" /\ pc = 0 /\ err = "none"
    /\ currencies = Empty /\ markers = Empty /\ donuts = Empty /\ ui = Empty
    /\ updates = 0
    /\ lastLoad = Empty /\ prevLoad = Empty
    /\ call = NoCall /\ ret = NoRet

Next ==
    \/ Rerun
    \/ SetPageConfig
    \/ Load
    \/ Derive
    \/ Header
    \/ Marker
    \/ StFolium
    \/ DonutHeading
    \/ Donut
    \/ Footer
    \/ UpdateCsv

Spec == Init /\ [][Next]_vars

(***************************************************************************)
(* The functions of the script applied in isolation, to arguments drawn    *)
(* from bounded sets: a percentage on a grid of halves, a file of up to    *)
(* MaxRows data rows in any date order, a list of up to MaxSlices slices.  *)
(***************************************************************************)
Pcts == {Rat(k, 2) : k \in (0 - MaxPctHalves)..MaxPctHalves}
AnyCodes == CodeSet \cup {"USD", "GBP"}

RowSet == {Row(d, c) : d \in 1..MaxDay, c \in {FromInt(5), FromInt(7)}}
FileSet == {MetaLines \o rows : rows \in UNION {[1..k -> RowSet] : k \in 0..MaxRows}}

SliceSet == {FromInt(0), FromInt(50), FromInt(100)}
SliceLists == UNION {[1..k -> SliceSet] : k \in 0..MaxSlices}
ColorsFor(values) ==
    [i \in 1..Len(values) |-> IF i = Len(values) THEN "#E8E8E8" ELSE "#FFB6C6"]

Calls ==
    {[NoCall EXCEPT !.fn = f, !.code = c, !.pct = x] :
        f \in {"color_for"}, c \in AnyCodes, x \in Pcts}
    \cup {[NoCall EXCEPT !.fn = f, !.code = c, !.pct = x] :
        f \in {"radius", "donut"}, c \in CodeSet, x \in Pcts}
    \cup {[NoCall EXCEPT !.fn = "load_currency_data", !.lines = l] : l \in FileSet}
    \cup {[NoCall EXCEPT !.fn = "donut_matplotlib", !.percentage = v,
                         !.colors = ColorsFor(v)] : v \in SliceLists}

Pending(fn) == call.fn = fn /\ ret.fn = "none"
Rest == <<files, cache, status, pc, err, currencies, markers, donuts, ui,
          updates, lastLoad, prevLoad, call>>

ApplyColorFor ==
    /\ Pending("color_for")
    /\ ret' = [fn |-> "color_for", color |-> color_for(call.code, call.pct)]
    /\ UNCHANGED Rest

ApplyRadius ==
    /\ Pending("radius")
    /\ ret' = [fn |-> "radius", radius |-> radius_for(call.code, call.pct)]
    /\ UNCHANGED Rest

ApplyDonut ==
    /\ Pending("donut")
    /\ LET a == DonutArgs(call.code, call.pct)
       IN  ret' = [fn |-> "donut", args |-> a,
                   fig |-> donut_matplotlib(a.values, a.colors)]
    /\ UNCHANGED Rest

ApplyDonutMatplotlib ==
    /\ Pending("donut_matplotlib")
    /\ ret' = [fn |-> "donut_matplotlib",
               fig |-> donut_matplotlib(call.percentage, call.colors)]
    /\ UNCHANGED Rest

ApplyLoad ==
    /\ Pending("load_currency_data")
    /\ ret' = [fn |-> "load_currency_data", out |-> load_currency_data(call.lines)]
    /\ UNCHANGED Rest

FnInit ==
    /\ files = [p \in Paths |-> Typical(CHOOSE c \in CodeSet : Path(c) = p)]
    /\ cache = Empty
    /\ status = "idle" /\ pc = 0 /\ err = "none"
    /\ currencies = Empty /\ markers = Empty /\ donuts = Empty /\ ui = Empty
    /\ updates = 0
    /\ lastLoad = Empty /\ prevLoad = Empty
    /\ call \in Calls /\ ret = NoRet

FnNext ==
    \/ ApplyColorFor
    \/ ApplyRadius
    \/ ApplyDonut
    \/ ApplyDonutMatplotlib
    \/ ApplyLoad

FnSpec == FnInit /\ [][FnNext]_vars

(***************************************************************************)
(* Properties.                                                             *)
(***************************************************************************)
DataRows(lines) == SubSeq(lines, 4, Len(lines))
Derived(c) == c \in DOMAIN currencies /\ "percentage" \in DOMAIN currencies[c]
Hundred == FromInt(100)

\* C1: whenever the derivation loop has read a rate <= 0 for a currency, the
\* run has failed at that iteration and no percentage is stored for it.
C1_NonPositiveRateFails ==
    \A c \in DOMAIN currencies :
        ("rate" \in DOMAIN currencies[c] /\ currencies[c].rate.n <= 0)
        => /\ status = "aborted" /\ err # "none"
           /\ Script[pc] = Step("derive", c)
           /\ "percentage" \notin DOMAIN currencies[c]

\* C2: for a file with at least one data row after the three metadata lines,
\* load_currency_data returns without error the close and date of a row whose
\* date is the greatest of all data rows.
C2_ReturnsMostRecentRow ==
    (ret.fn = "load_currency_data" /\ Len(call.lines) > 3)
    => LET rows == DataRows(call.lines)
       IN  /\ ret.out.err = "none"
           /\ \A i \in 1..Len(rows) : rows[i].Date <= ret.out.date
           /\ \E i \in 1..Len(rows) :
                 rows[i].Date = ret.out.date /\ rows[i].Close = ret.out.close

\* C3 as stated: for every percentage > 0 the slice values of the EUR donut
\* sum to 100, in the overflow branch and in the other one.
C3_SlicesSumTo100 ==
    (ret.fn = "donut" /\ call.code = "EUR" /\ call.pct.n > 0)
    => REq(RSum(ret.args.values), Hundred)

\* C3 as amended: for every percentage > 0 the slice values of the EUR donut
\* sum to 100 when the percentage is at most 100, and to
\* 100 + min(percentage - 100, 100) when it is above 100.
C3_SlicesSumByBranch ==
    (ret.fn = "donut" /\ call.code = "EUR" /\ call.pct.n > 0)
    => IF RLt(Hundred, call.pct)
       THEN REq(RSum(ret.args.values),
                RAdd(Hundred, RMin(RSub(call.pct, Hundred), Hundred)))
       ELSE REq(RSum(ret.args.values), Hundred)

C3_OverflowClamped ==
    /\ ret.fn = "donut" /\ call.code = "EUR"
    /\ RLt(FromInt(200), call.pct)
    /\ Len(ret.args.values) = 3
    /\ REq(RSum(ret.args.values), FromInt(200))

C5_RadiusRange ==
    ret.fn = "radius"
    => /\ RLe(FromInt(6), ret.radius)
       /\ RLe(ret.radius, FromInt(14))
       /\ RLe(radius_for(call.code, RAdd(call.pct, Rat(1, 2))), ret.radius)

C5_EurAboveCap ==
    /\ ret.fn = "radius" /\ call.code = "EUR"
    /\ RLt(FromInt(160), call.pct)
    /\ REq(ret.radius, FromInt(6))

\* C6: when a run has finished, the rate and date it shows for each currency
\* are those of the most recent row of the file as it is on disk.
C6_RenderShowsCurrentFile ==
    status = "done"
    => \A c \in CodeSet :
          LET rows == DataRows(files[Path(c)])
          IN  \E i \in 1..Len(rows) :
                 /\ \A j \in 1..Len(rows) : rows[j].Date <= rows[i].Date
                 /\ markers[c].rate = rows[i].Close
                 /\ markers[c].dt = rows[i].Date
                 /\ donuts[c].rate = rows[i].Close

\* C7: a run emits nothing after the page configuration before all four
\* currencies are loaded and derived, and a run that a load or a derivation
\* has failed is aborted with no element, marker or donut emitted.
C7_IngestBeforeOutput ==
    /\ (ui # <<>> \/ DOMAIN markers # {} \/ DOMAIN donuts # {})
       => \A c \in CodeSet : Derived(c)
    /\ err \in {"EmptyDataError", "IndexError", "ZeroDivisionError"}
       => /\ status = "aborted"
          /\ Script[pc].kind \in {"load", "derive"}
          /\ ui = <<>> /\ DOMAIN markers = {} /\ DOMAIN donuts = {}

C7_LastDerivationFails ==
    /\ status = "aborted" /\ err = "ZeroDivisionError"
    /\ Script[pc] = Step("derive", "ZAR")
    /\ \A c \in CodeSet \ {"ZAR"} : Derived(c)
    /\ ui = <<>>

\* C8: two consecutive loads of one path between which the file has not
\* changed return the same observation (or fail the same way).
C8_SameContentSameObservation ==
    \A p \in DOMAIN prevLoad :
        prevLoad[p].lines = lastLoad[p].lines
        => prevLoad[p].out = lastLoad[p].out

C8_LoadedTwiceAfterUpdate ==
    \E p \in DOMAIN prevLoad :
        /\ prevLoad[p].lines = lastLoad[p].lines
        /\ lastLoad[p].out.err = "none"
        /\ p \in DOMAIN cache /\ lastLoad[p].out = cache[p]
        /\ Len(DataRows(lastLoad[p].lines)) > 2

\* C9: when every slice value is zero the helper draws one slice of weight 1
\* in the neutral colour, so the total is not zero and there are as many
\* colors as values; when the total is not zero it draws the values and
\* colors it was given.
C9_DegenerateDonut ==
    ret.fn = "donut_matplotlib"
    => LET v == call.percentage
       IN  /\ (\A i \in 1..Len(v) : v[i].n = 0)
              => /\ ret.fig.values = <<FromInt(1)>>
                 /\ ret.fig.colors = <<"#E8E8E8">>
           /\ ~REq(RSum(v), FromInt(0))
              => /\ ret.fig.values = v
                 /\ ret.fig.colors = call.colors
           /\ ~REq(RSum(ret.fig.values), FromInt(0))
           /\ Len(ret.fig.colors) = Len(ret.fig.values)

C9_AllZeroReplaced ==
    /\ ret.fn = "donut_matplotlib"
    /\ Len(call.percentage) = 2
    /\ \A i \in 1..Len(call.percentage) : call.percentage[i].n = 0
    /\ Len(ret.fig.values) = 1

\* C10: for each of the four currencies and every percentage > 0 the first
\* slice of the donut is light green exactly when color_for is green and a
\* red shade exactly when color_for is red.
C10_DonutAgreesWithMarker ==
    (ret.fn = "donut" /\ call.pct.n > 0)
    => /\ ret.args.colors[1] = "#90EE90"
          <=> color_for(call.code, call.pct) = "green"
       /\ ret.args.colors[1] \in {"#FFB6C6", "#CC0000"}
          <=> color_for(call.code, call.pct) = "red"

====
